---- MODULE Spec2Model ----
(***************************************************************************)
(* Model of pymrt/visualizer/plot3d.py, animate_sensor_with_gm: the frame  *)
(* controller (Controller._next_frame_changed, _previous_frame_changed,    *)
(* update_frame), the first drawing done by main_view, and the exact-match *)
(* lookup of an observation vector in the embedding matrix.                *)
(*                                                                         *)
(* Spec       the Controller over a given gm_s_list                        *)
(* SpecLookup the lookup expression on its own                             *)
(* SpecBuild  the function from its entry, sampling loop included          *)
(* SpecAlias  the Controller with a renderer that edits what it is handed  *)
(*                                                                         *)
(* Floats are modelled as pairs <<kind, milli>>: kind is "num" or "nan"    *)
(* and milli is the value in thousandths.  Python sequences are TLA+       *)
(* sequences; Python index i is TLA+ index i + 1.                          *)
(***************************************************************************)
EXTENDS Integers, Sequences, FiniteSets, TLC

\* ------------------------------------------------------------------ bounds
\* Largest number of time steps in gm_s_list.
MaxFrames == 3
\* Largest number of rows of the embedding matrix in the lookup specification.
MaxSensors == 3

\* ------------------------------------------------------------------ floats
Num(milli) == <<"num", milli>>
NaN == <<"nan", 0>>

\* log(np.finfo(np.float).tiny) = log(2.2250738585072014e-308), in thousandths
LogOfTiny == 0 - 708396

\* np.log(x + np.finfo(np.float).tiny) for one element x.  tiny is absorbed
\* by every non-zero x; np.log of a negative number is nan (a warning, no
\* exception); 0 + tiny = tiny.
NpLogPlusTiny(x) ==
    IF x[1] = "nan" THEN NaN
    ELSE IF x[2] < 0 THEN NaN
    ELSE IF x[2] = 0 THEN Num(LogOfTiny)
    ELSE IF x[2] = 1000 THEN Num(0)
    ELSE IF x[2] = 2000 THEN Num(693)
    ELSE Num(1099)

\* ------------------------------------------------------------------ inputs
\* Sensor positions used for the controller: they differ in the last
\* coordinate only.
P0 == <<0, 0, 0>>
P1 == <<0, 0, 1>>

\* Embedding matrices (one row per sensor) the controller is run on.
Registries == { <<P0>>, <<P0, P1>>, <<P1, P0>>, <<P1, P1>> }

\* Observation arrays of one time step.
ObsArrays == { <<>>, <<P0>>, <<P1>>, <<P0, P1>> }

\* PHD scalars of one time step, sampled on a grid of two points.
Fields == { <<Num(0), Num(1000)>>, <<Num(0 - 1000), Num(1000)>> }

\* Sequences over S of length exactly n.
SeqsOfLen(S, n) == [1..n -> S]

\* All positions with coordinates in {0, 1}, for the lookup specification.
AllPositions == { <<x, y, z>> : x \in 0..1, y \in 0..1, z \in 0..1 }

VARIABLES
    pc,               \* "entry", "sampling", "start", "running", "failed",
                      \* or "lookup" and "looked" in the lookup specification
    embeddings,       \* argument embeddings: sequence of positions
    gm_s_list,        \* gm_s_list: sequence of fields (<<>> when None)
    gm_s_given,       \* argument gm_s_list is not None
    gm_list_given,    \* argument gm_list_list is not None
    gm_list_list,     \* argument gm_list_list (<<>> when None)
    sampler_calls,    \* the gm_list arguments of the gm_calculate calls made
    obs_given,        \* observation_list is not None
    observation_list, \* argument observation_list (<<>> when None)
    log_plot,         \* argument log_plot
    current_frame,    \* Controller.current_frame (0-based)
    scalars,          \* phd_contour.mlab_source scalars: the field on display
    color_vector,     \* Controller.color_vector, the buffer handed to the
                      \* sensor points as point_data.scalars
    last,             \* the last call: its name, the state before it, the
                      \* exception it raised and the renderer calls it made
    prev,             \* the call before the last, same shape
    lk_result         \* lookup specification: the vector looked up and the
                      \* outcome of np.where(...)[0][0]

vars == <<pc, embeddings, gm_s_list, gm_s_given, gm_list_given, gm_list_list,
          sampler_calls, obs_given, observation_list, log_plot,
          current_frame, scalars, color_vector, last, prev, lk_result>>

\* What is fixed once the Controller runs: the arguments and the sampling.
inputs == <<embeddings, gm_s_list, gm_s_given, gm_list_given, gm_list_list,
            sampler_calls, obs_given, observation_list, log_plot>>

\* ------------------------------------------------------- python indexing
\* seq[i] raises IndexError unless -len <= i < len; negative i counts from
\* the end.
PyIndexOk(seq, i) == (0 - Len(seq)) <= i /\ i < Len(seq)
PyGet(seq, i) == IF i >= 0 THEN seq[i + 1] ELSE seq[Len(seq) + i + 1]

\* ------------------------------------------------------------------ lookup
\* np.all(embeddings == sensor_vec.flatten(), axis=1): row r matches when it
\* equals the vector in each of the three columns.
RowMatches(emb, r, vec) == \A c \in 1..3 : emb[r][c] = vec[c]

\* np.where(...)[0]: the 0-based indices of the matching rows, ascending.
WhereRows(emb, vec) == { r - 1 : r \in { q \in 1..Len(emb) : RowMatches(emb, q, vec) } }

SetMin(S) == CHOOSE m \in S : \A o \in S : m <= o

\* Variant: the last matching row.
LookupExact_Last(emb, vec) ==
    IF WhereRows(emb, vec) = {}
    THEN [ok |-> FALSE, index |-> 0 - 1]
    ELSE [ok |-> TRUE,
          index |-> CHOOSE m \in WhereRows(emb, vec) :
                       \A o \in WhereRows(emb, vec) : m >= o]

\* np.where(...)[0][0]: the first matching row, IndexError when there is none.
LookupExact(emb, vec) ==
    IF WhereRows(emb, vec) = {}
    THEN [ok |-> FALSE, index |-> 0 - 1]
    ELSE [ok |-> TRUE, index |-> SetMin(WhereRows(emb, vec))]

NoLookup == [vec |-> P0, ok |-> FALSE, index |-> 0 - 1]

\* obs_index = [ lookup(v) for v in obs_array ]: fails when one lookup fails.
ObsIndexOk(emb, obs_array) ==
    \A k \in 1..Len(obs_array) : LookupExact(emb, obs_array[k]).ok
ObsIndex(emb, obs_array) ==
    [k \in 1..Len(obs_array) |-> LookupExact(emb, obs_array[k]).index]

\* ------------------------------------------------------------ update_frame
\* contour_s of lines 191-196 (and 220-223 in main_view).
ContourS(field) ==
    IF log_plot THEN [i \in 1..Len(field) |-> NpLogPlusTiny(field[i])]
    ELSE field

\* Variant: the buffer is not cleared.
Cleared_Keep(cv) == cv

\* color_vector[:] = 0.
Cleared(cv) == [j \in 1..Len(cv) |-> 0]

\* color_vector[obs_index] = 1.
Marked(cv, obs_index) ==
    [j \in 1..Len(cv) |->
        IF \E k \in 1..Len(obs_index) : obs_index[k] = j - 1 THEN 1 ELSE cv[j]]

\* Runs of calls are counted up to MaxRun, one more than the frames there are.
MaxRun == MaxFrames + 1

NoCall == [op |-> "none", index |-> 0, scalars |-> <<>>, color_vector |-> <<>>,
           error |-> "none", events |-> <<>>, run |-> 0, from |-> 0]

\* A call record as kept for the call before the last: without its run.
Earlier(c) == [c EXCEPT !.run = 0, !.from = 0]

\* The record of a call of handler op made in the current state: the state
\* before it, its exception, its renderer calls, and the run of consecutive
\* calls of op without exception that it ends: their number (counted up to
\* MaxRun, 0 when this call raised) and the frame the run started from.
Call(op, err, ev) ==
    [op |-> op, index |-> current_frame, scalars |-> scalars,
     color_vector |-> color_vector, error |-> err, events |-> ev,
     run |-> IF err # "none" THEN 0
             ELSE IF last.op = op /\ last.run >= 1
                  THEN (IF last.run < MaxRun THEN last.run + 1 ELSE MaxRun)
                  ELSE 1,
     from |-> IF err = "none" /\ last.op = op /\ last.run >= 1
              THEN last.from ELSE current_frame]

\* The outcome of Controller.update_frame() run with current_frame = cf:
\* the field on display, the colour buffer, the exception and the renderer
\* calls.  An exception leaves what the earlier statements already did.
UpdateFrame(cf) ==
    IF ~PyIndexOk(gm_s_list, cf)
    THEN [scalars |-> scalars, color_vector |-> color_vector,
          error |-> "IndexError", events |-> <<>>]
    ELSE IF ~obs_given
    THEN [scalars |-> ContourS(PyGet(gm_s_list, cf)),
          color_vector |-> Cleared(color_vector),
          error |-> "none", events |-> <<"set_scalars", "draw">>]
    ELSE IF ~PyIndexOk(observation_list, cf)
    THEN [scalars |-> ContourS(PyGet(gm_s_list, cf)),
          color_vector |-> Cleared(color_vector),
          error |-> "IndexError", events |-> <<"set_scalars">>]
    ELSE IF ~ObsIndexOk(embeddings, PyGet(observation_list, cf))
    THEN [scalars |-> ContourS(PyGet(gm_s_list, cf)),
          color_vector |-> Cleared(color_vector),
          error |-> "IndexError", events |-> <<"set_scalars">>]
    ELSE [scalars |-> ContourS(PyGet(gm_s_list, cf)),
          color_vector |-> Marked(Cleared(color_vector),
                                  ObsIndex(embeddings, PyGet(observation_list, cf))),
          error |-> "none",
          events |-> <<"set_scalars", "set_point_scalars", "draw">>]

\* -------------------------------------------------------------------- Init
Init ==
    /\ pc = "start"
    /\ embeddings \in Registries
    /\ log_plot \in BOOLEAN
    /\ gm_s_given = TRUE
    /\ gm_list_given = FALSE
    /\ gm_list_list = <<>>
    /\ sampler_calls = <<>>
    /\ \E n \in 0..MaxFrames :
          /\ gm_s_list \in SeqsOfLen(Fields, n)
          /\ \/ /\ obs_given = FALSE
                /\ observation_list = <<>>
             \/ /\ obs_given = TRUE
                /\ \E m \in {n - 1, n} :
                      /\ m >= 0
                      /\ observation_list \in SeqsOfLen(ObsArrays, m)
    /\ current_frame = 0
    /\ scalars = <<>>
    /\ color_vector = <<>>
    /\ last = NoCall
    /\ prev = NoCall
    /\ lk_result = NoLookup

\* ---------------------------------------------------------------- main_view
\* main_view draws frame 0 and constructs the Controller.  An exception
\* (gm_s_list[0] or observation_list[0] out of range, an observation that
\* matches no row) ends it before the Controller exists.
MainViewFails ==
    \/ ~PyIndexOk(gm_s_list, 0)
    \/ obs_given /\ ~PyIndexOk(observation_list, 0)
    \/ /\ obs_given
       /\ PyIndexOk(observation_list, 0)
       /\ ~ObsIndexOk(embeddings, PyGet(observation_list, 0))

\* Variant: the matched sensors are not marked (line 257 left out).
MainView_NoMarks ==
    /\ pc = "start"
    /\ IF MainViewFails
       THEN /\ pc' = "failed"
            /\ last' = Call("main_view", "IndexError", <<>>)
            /\ UNCHANGED <<current_frame, scalars, color_vector>>
       ELSE /\ pc' = "running"
            /\ scalars' = ContourS(PyGet(gm_s_list, 0))
            /\ color_vector' = [j \in 1..Len(embeddings) |-> 0]
            /\ current_frame' = 0
            /\ last' = Call("main_view", "none", <<"contour3d", "points3d">>)
    /\ prev' = Earlier(last)
    /\ UNCHANGED <<inputs, lk_result>>

MainView ==
    /\ pc = "start"
    /\ IF MainViewFails
       THEN /\ pc' = "failed"
            /\ last' = Call("main_view", "IndexError", <<>>)
            /\ UNCHANGED <<current_frame, scalars, color_vector>>
       ELSE /\ pc' = "running"
            /\ scalars' = ContourS(PyGet(gm_s_list, 0))
            /\ color_vector' =
                 IF obs_given
                 THEN Marked([j \in 1..Len(embeddings) |-> 0],
                             ObsIndex(embeddings, PyGet(observation_list, 0)))
                 ELSE [j \in 1..Len(embeddings) |-> 0]
            /\ current_frame' = 0
            /\ last' = Call("main_view", "none", <<"contour3d", "points3d">>)
    /\ prev' = Earlier(last)
    /\ UNCHANGED <<inputs, lk_result>>

\* ------------------------------------------------------ _next_frame_changed
\* Variant: the bound is off by one.
NextFrameGuard_Off == current_frame + 1 <= Len(gm_s_list)
NextFrameGuard == current_frame + 1 < Len(gm_s_list)

\* Variant: update_frame() is called outside the if.
NextFrame_Redraw ==
    /\ pc = "running"
    /\ IF NextFrameGuard
       THEN /\ current_frame' = current_frame + 1
            /\ scalars' = UpdateFrame(current_frame + 1).scalars
            /\ color_vector' = UpdateFrame(current_frame + 1).color_vector
            /\ last' = Call("next", UpdateFrame(current_frame + 1).error,
                            UpdateFrame(current_frame + 1).events)
       ELSE /\ UNCHANGED current_frame
            /\ scalars' = UpdateFrame(current_frame).scalars
            /\ color_vector' = UpdateFrame(current_frame).color_vector
            /\ last' = Call("next", UpdateFrame(current_frame).error,
                            UpdateFrame(current_frame).events)
    /\ prev' = Earlier(last)
    /\ UNCHANGED <<pc, inputs, lk_result>>

NextFrame ==
    /\ pc = "running"
    /\ IF NextFrameGuard
       THEN /\ current_frame' = current_frame + 1
            /\ scalars' = UpdateFrame(current_frame + 1).scalars
            /\ color_vector' = UpdateFrame(current_frame + 1).color_vector
            /\ last' = Call("next", UpdateFrame(current_frame + 1).error,
                            UpdateFrame(current_frame + 1).events)
       ELSE /\ UNCHANGED <<current_frame, scalars, color_vector>>
            /\ last' = Call("next", "none", <<>>)
    /\ prev' = Earlier(last)
    /\ UNCHANGED <<pc, inputs, lk_result>>

\* -------------------------------------------------- _previous_frame_changed
\* Variant: the bound is strict.
PreviousFrameGuard_Strict == current_frame - 1 > 0
\* Variant: the bound is off by one.
PreviousFrameGuard_Off == current_frame - 1 >= 0 - 1
PreviousFrameGuard == current_frame - 1 >= 0

\* Variant: update_frame() runs before current_frame is decremented.
PreviousFrame_Stale ==
    /\ pc = "running"
    /\ IF PreviousFrameGuard
       THEN /\ current_frame' = current_frame - 1
            /\ scalars' = UpdateFrame(current_frame).scalars
            /\ color_vector' = UpdateFrame(current_frame).color_vector
            /\ last' = Call("previous", UpdateFrame(current_frame).error,
                            UpdateFrame(current_frame).events)
       ELSE /\ UNCHANGED <<current_frame, scalars, color_vector>>
            /\ last' = Call("previous", "none", <<>>)
    /\ prev' = Earlier(last)
    /\ UNCHANGED <<pc, inputs, lk_result>>

PreviousFrame ==
    /\ pc = "running"
    /\ IF PreviousFrameGuard
       THEN /\ current_frame' = current_frame - 1
            /\ scalars' = UpdateFrame(current_frame - 1).scalars
            /\ color_vector' = UpdateFrame(current_frame - 1).color_vector
            /\ last' = Call("previous", UpdateFrame(current_frame - 1).error,
                            UpdateFrame(current_frame - 1).events)
       ELSE /\ UNCHANGED <<current_frame, scalars, color_vector>>
            /\ last' = Call("previous", "none", <<>>)
    /\ prev' = Earlier(last)
    /\ UNCHANGED <<pc, inputs, lk_result>>

Next == MainView \/ NextFrame \/ PreviousFrame

Spec == Init /\ [][Next]_vars

\* ------------------------------------------------------------------------
\* Lookup specification: the lookup expression of lines 204-206 and 252-254
\* applied to embedding matrices of up to MaxSensors rows and to every
\* position with coordinates in {0, 1}.
InitLookup ==
    /\ pc = "lookup"
    /\ \E n \in 1..MaxSensors : embeddings \in SeqsOfLen(AllPositions, n)
    /\ gm_s_list = <<>>
    /\ gm_s_given = TRUE
    /\ gm_list_given = FALSE
    /\ gm_list_list = <<>>
    /\ sampler_calls = <<>>
    /\ obs_given = FALSE
    /\ observation_list = <<>>
    /\ log_plot = FALSE
    /\ current_frame = 0
    /\ scalars = <<>>
    /\ color_vector = <<>>
    /\ last = NoCall
    /\ prev = NoCall
    /\ lk_result = NoLookup

Lookup ==
    /\ pc \in {"lookup", "looked"}
    /\ \E vec \in AllPositions :
          lk_result' = [vec |-> vec,
                        ok |-> LookupExact(embeddings, vec).ok,
                        index |-> LookupExact(embeddings, vec).index]
    /\ pc' = "looked"
    /\ UNCHANGED <<inputs, current_frame, scalars, color_vector, last, prev>>

NextLookup == Lookup

SpecLookup == InitLookup /\ [][NextLookup]_vars

\* ------------------------------------------------------------------------
\* Sampling specification: animate_sensor_with_gm from its entry, with
\* gm_s_list and gm_list_list each given or None, through the sampling loop
\* to main_view and the Controller.
Mixtures == { "gm_a", "gm_b" }

\* gm_calculate(gm_list=..., grid=grid) of pymrt.tracking.utils: a function
\* of the mixture (the grid is the same for every call).
GmCalculate(gm_list) ==
    IF gm_list = "gm_a" THEN <<Num(0), Num(1000)>> ELSE <<Num(1000), Num(1000)>>

InitBuild ==
    /\ pc = "entry"
    /\ embeddings = <<P0, P1>>
    /\ log_plot \in BOOLEAN
    /\ obs_given = FALSE
    /\ observation_list = <<>>
    /\ gm_s_given \in BOOLEAN
    /\ IF gm_s_given
       THEN \E n \in 0..MaxFrames : gm_s_list \in SeqsOfLen(Fields, n)
       ELSE gm_s_list = <<>>
    /\ gm_list_given \in BOOLEAN
    /\ IF gm_list_given
       THEN \E n \in 0..MaxFrames : gm_list_list \in SeqsOfLen(Mixtures, n)
       ELSE gm_list_list = <<>>
    /\ sampler_calls = <<>>
    /\ current_frame = 0
    /\ scalars = <<>>
    /\ color_vector = <<>>
    /\ last = NoCall
    /\ prev = NoCall
    /\ lk_result = NoLookup

\* Variant: the mixtures are sampled whenever they are given.
Entry_MixturesFirst ==
    /\ pc = "entry"
    /\ IF gm_list_given
       THEN /\ gm_s_list' = <<>>
            /\ pc' = IF Len(gm_list_list) = 0 THEN "start" ELSE "sampling"
            /\ last' = Call("animate", "none", <<>>)
       ELSE IF gm_s_given
       THEN /\ pc' = "start"
            /\ last' = Call("animate", "none", <<>>)
            /\ UNCHANGED gm_s_list
       ELSE /\ pc' = "failed"
            /\ last' = Call("animate", "ValueError", <<>>)
            /\ UNCHANGED gm_s_list
    /\ prev' = Earlier(last)
    /\ UNCHANGED <<embeddings, gm_s_given, gm_list_given, gm_list_list,
                   sampler_calls, obs_given, observation_list, log_plot,
                   current_frame, scalars, color_vector, lk_result>>

\* Lines 146-154: gm_s_list given is kept; neither given raises ValueError;
\* otherwise gm_s_list = [] and the loop over gm_list_list starts.
Entry ==
    /\ pc = "entry"
    /\ IF gm_s_given
       THEN /\ pc' = "start"
            /\ last' = Call("animate", "none", <<>>)
            /\ UNCHANGED gm_s_list
       ELSE IF ~gm_list_given
       THEN /\ pc' = "failed"
            /\ last' = Call("animate", "ValueError", <<>>)
            /\ UNCHANGED gm_s_list
       ELSE /\ gm_s_list' = <<>>
            /\ pc' = IF Len(gm_list_list) = 0 THEN "start" ELSE "sampling"
            /\ last' = Call("animate", "none", <<>>)
    /\ prev' = Earlier(last)
    /\ UNCHANGED <<embeddings, gm_s_given, gm_list_given, gm_list_list,
                   sampler_calls, obs_given, observation_list, log_plot,
                   current_frame, scalars, color_vector, lk_result>>

\* Variant: the sampled field is put at the front of gm_s_list.
SampleStep_Prepend ==
    /\ pc = "sampling"
    /\ gm_s_list' =
          <<GmCalculate(gm_list_list[Len(gm_s_list) + 1])>> \o gm_s_list
    /\ sampler_calls' = Append(sampler_calls, gm_list_list[Len(gm_s_list) + 1])
    /\ pc' = IF Len(gm_s_list) + 1 = Len(gm_list_list) THEN "start" ELSE "sampling"
    /\ UNCHANGED <<embeddings, gm_s_given, gm_list_given, gm_list_list,
                   obs_given, observation_list, log_plot,
                   current_frame, scalars, color_vector, last, prev, lk_result>>

\* Lines 155-160, one iteration of the loop: the next mixture of
\* gm_list_list is sampled and the field appended; i equals len(gm_s_list).
SampleStep ==
    /\ pc = "sampling"
    /\ gm_s_list' =
          Append(gm_s_list, GmCalculate(gm_list_list[Len(gm_s_list) + 1]))
    /\ sampler_calls' = Append(sampler_calls, gm_list_list[Len(gm_s_list) + 1])
    /\ pc' = IF Len(gm_s_list) + 1 = Len(gm_list_list) THEN "start" ELSE "sampling"
    /\ UNCHANGED <<embeddings, gm_s_given, gm_list_given, gm_list_list,
                   obs_given, observation_list, log_plot,
                   current_frame, scalars, color_vector, last, prev, lk_result>>

NextBuild == Entry \/ SampleStep \/ MainView \/ NextFrame \/ PreviousFrame

SpecBuild == InitBuild /\ [][NextBuild]_vars

\* ------------------------------------------------------------------------
\* Aliasing specification: the Controller without observations, and a
\* renderer that writes into the array it was handed.  Without log_plot
\* contour_s is gm_s_list[current_frame] itself (lines 196 and 223), so the
\* array handed over is the stored one; with log_plot it is the new array
\* np.log returns.
InitAlias ==
    /\ Init
    /\ embeddings = <<P0, P1>>
    /\ obs_given = FALSE

\* The renderer sets the first element of the array it holds to 2.0.
RendererEdit ==
    /\ pc = "running"
    /\ scalars' = [scalars EXCEPT ![1] = Num(2000)]
    /\ gm_s_list' =
          IF log_plot THEN gm_s_list
          ELSE [gm_s_list EXCEPT
                  ![current_frame + 1] = [scalars EXCEPT ![1] = Num(2000)]]
    /\ last' = Call("edit", "none", <<>>)
    /\ prev' = Earlier(last)
    /\ UNCHANGED <<pc, embeddings, gm_s_given, gm_list_given, gm_list_list,
                   sampler_calls, obs_given, observation_list, log_plot,
                   current_frame, color_vector, lk_result>>

NextAlias == MainView \/ NextFrame \/ PreviousFrame \/ RendererEdit

SpecAlias == InitAlias /\ [][NextAlias]_vars

\* ========================================================================
\* Properties
\* ========================================================================
NumFrames == Len(gm_s_list)
NumSensors == Len(embeddings)
Navigated == pc = "running" /\ last.op \in {"next", "previous"}
\* The last call moved the cursor and update_frame() returned normally.
Transitioned == Navigated /\ current_frame # last.index /\ last.error = "none"
\* The observation array of time step k holds a vector equal to no row of
\* the embedding matrix.
HasUnregistered(k) ==
    /\ obs_given
    /\ PyIndexOk(observation_list, k)
    /\ \E o \in 1..Len(PyGet(observation_list, k)) :
          \A r \in 1..NumSensors : embeddings[r] # PyGet(observation_list, k)[o]

\* C1: once the Controller exists, after any sequence of next-frame and
\* previous-frame calls (no-ops at a boundary and calls that raise
\* included), 0 <= current_frame < number of frames.
C1_IndexInRange ==
    pc = "running" => 0 <= current_frame /\ current_frame < NumFrames

\* C1 witness: a previous-frame call at frame 0 followed by a next-frame
\* call that raised.
C1_Witness ==
    /\ pc = "running"
    /\ prev.op = "previous" /\ prev.index = 0
    /\ last.op = "next" /\ last.error = "IndexError"

\* C2: if the frame after the current one holds an observation that equals
\* no sensor position, the next-frame call raises and current_frame is
\* what it was before the call.
C2_FailedStepKeepsIndex ==
    (/\ pc = "running"
     /\ last.op = "next"
     /\ last.index + 1 < NumFrames
     /\ HasUnregistered(last.index + 1))
    => (last.error = "IndexError" /\ current_frame = last.index)

\* C3: when a navigation call raises in update_frame() on an observation
\* that equals no sensor position, the field on display and the highlight
\* buffer are what they were before the call.
C3_FailedStepKeepsDisplay ==
    (Navigated /\ last.error # "none" /\ HasUnregistered(current_frame))
    => (scalars = last.scalars /\ color_vector = last.color_vector)

\* C4: a next-frame call from frame i with i + 1 < number of frames followed
\* by a previous-frame call, neither raising, ends at frame i with the field
\* on display and the highlight buffer equal to those before the pair.
C4_RoundTrip ==
    (/\ pc = "running"
     /\ prev.op = "next" /\ prev.error = "none"
     /\ prev.index + 1 < NumFrames
     /\ last.op = "previous" /\ last.error = "none")
    => (/\ current_frame = prev.index
        /\ scalars = prev.scalars
        /\ color_vector = prev.color_vector)

\* C4 witness: such a pair from an interior frame, between two frames whose
\* fields and highlights differ.
C4_Witness ==
    /\ pc = "running"
    /\ prev.op = "next" /\ prev.error = "none"
    /\ prev.index >= 1 /\ prev.index + 1 < NumFrames
    /\ last.op = "previous" /\ last.error = "none"
    /\ last.scalars # scalars
    /\ last.color_vector # color_vector

\* C5: after a call that moved to frame k without raising, the highlight
\* buffer has one entry per sensor, and entry j is 1 exactly when some
\* observation of frame k equals row j and no earlier row; all other
\* entries are 0, whatever the buffer held before.
C5_MaskOfFrame ==
    Transitioned =>
        /\ Len(color_vector) = NumSensors
        /\ \A j \in 1..NumSensors :
              /\ color_vector[j] \in {0, 1}
              /\ (color_vector[j] = 1) <=>
                    (/\ obs_given
                     /\ current_frame < Len(observation_list)
                     /\ \E k \in 1..Len(observation_list[current_frame + 1]) :
                           /\ observation_list[current_frame + 1][k] = embeddings[j]
                           /\ \A i \in 1..(j - 1) :
                                 embeddings[i] # observation_list[current_frame + 1][k])

\* C5 witness: a move from a frame that highlighted a sensor to a frame that
\* does not highlight it, and a move to a frame without observations.
C5_Witness ==
    /\ Transitioned
    /\ \E j \in 1..NumSensors : last.color_vector[j] = 1 /\ color_vector[j] = 0
    /\ \E j \in 1..NumSensors : color_vector[j] = 1
    /\ prev.op \in {"next", "previous"} /\ prev.error = "none"
    /\ prev.index # last.index
    /\ \A j \in 1..NumSensors : prev.color_vector[j] = 0

\* C6: the lookup returns the lowest row index whose position equals the
\* vector in all three coordinates, and raises exactly when no row does.
C6_LookupLowestMatch ==
    pc = "looked" =>
        IF \E r \in 1..NumSensors : embeddings[r] = lk_result.vec
        THEN /\ lk_result.ok
             /\ lk_result.index \in 0..(NumSensors - 1)
             /\ embeddings[lk_result.index + 1] = lk_result.vec
             /\ \A r \in 1..lk_result.index : embeddings[r] # lk_result.vec
        ELSE ~lk_result.ok

\* C6 witness: a lookup of a vector that two rows equal, after a row that
\* differs from it in one coordinate only.
C6_Witness ==
    /\ pc = "looked"
    /\ lk_result.ok
    /\ \E r \in 1..NumSensors : r - 1 > lk_result.index /\ embeddings[r] = lk_result.vec
    /\ \E r \in 1..lk_result.index :
          Cardinality({c \in 1..3 : embeddings[r][c] # lk_result.vec[c]}) = 1

\* C7: a previous-frame call at frame 0 leaves current_frame at 0, the field
\* on display and the highlight buffer as they were, and calls nothing.
C7_BackwardAtFirst ==
    (pc = "running" /\ last.op = "previous" /\ last.index = 0)
    => (/\ current_frame = 0
        /\ scalars = last.scalars
        /\ color_vector = last.color_vector
        /\ last.error = "none"
        /\ last.events = <<>>)

\* C7 witness: a previous-frame call at frame 0 reached by stepping back
\* from frame 1.
C7_Witness ==
    /\ pc = "running"
    /\ last.op = "previous" /\ last.index = 0
    /\ prev.op = "previous" /\ prev.index = 1

\* C8: a next-frame call at the last frame leaves current_frame, the field
\* on display and the highlight buffer as they were and makes no renderer
\* call (no set of the scalars, no draw).
C8_ForwardAtLast ==
    (pc = "running" /\ last.op = "next" /\ last.index = NumFrames - 1)
    => (/\ current_frame = NumFrames - 1
        /\ scalars = last.scalars
        /\ color_vector = last.color_vector
        /\ last.error = "none"
        /\ last.events = <<>>)

\* C8 witness: a next-frame call at the last frame, reached by a next-frame
\* call that drew.
C8_Witness ==
    /\ pc = "running"
    /\ last.op = "next" /\ last.index = NumFrames - 1
    /\ prev.op = "next" /\ prev.events # <<>> /\ prev.error = "none"

\* C10: no Controller exists over an empty frame list or over an observation
\* list whose length differs from the number of frames, so every frame the
\* cursor reaches has an observation entry when observations were given.
C10_ConstructionValidated ==
    pc = "running" =>
        /\ NumFrames >= 1
        /\ obs_given =>
              /\ Len(observation_list) = NumFrames
              /\ current_frame < Len(observation_list)

\* The frame a navigation call is directed at: the one after, or before, the
\* frame the cursor was on.
Target == IF last.op = "next" THEN last.index + 1 ELSE last.index - 1
\* The field of time step k has an element x with x + tiny <= 0.
HasNonPositive(k) ==
    \E i \in 1..Len(PyGet(gm_s_list, k)) : PyGet(gm_s_list, k)[i][2] < 0
\* Entry j of the highlight buffer as the observations of time step k
\* determine it: 1 when some observation equals row j and no earlier row.
MaskEntryOf(k, j) ==
    IF /\ obs_given
       /\ PyIndexOk(observation_list, k)
       /\ \E o \in 1..Len(PyGet(observation_list, k)) :
             /\ PyGet(observation_list, k)[o] = embeddings[j]
             /\ \A i \in 1..(j - 1) : embeddings[i] # PyGet(observation_list, k)[o]
    THEN 1 ELSE 0
\* The field put on display for a stored field f: log(f + tiny) element by
\* element with log_plot, f itself without.
DisplayOf(f) ==
    IF log_plot
    THEN [i \in 1..Len(f) |->
            IF f[i][2] < 0 THEN NaN
            ELSE IF f[i][2] = 0 THEN Num(LogOfTiny) ELSE Num(0)]
    ELSE f

\* C11: with log_plot, a navigation call directed at a frame whose field has
\* an element x with x + tiny <= 0 raises, puts no NaN on display, and leaves
\* current_frame, the field on display and the highlight buffer as they were.
C11_NonPositiveLogAborts ==
    (/\ Navigated
     /\ log_plot
     /\ 0 <= Target /\ Target < NumFrames
     /\ HasNonPositive(Target)
     /\ ~HasUnregistered(Target)
     /\ obs_given => PyIndexOk(observation_list, Target))
    => (/\ last.error # "none"
        /\ \A i \in 1..Len(scalars) : scalars[i] # NaN
        /\ current_frame = last.index
        /\ scalars = last.scalars
        /\ color_vector = last.color_vector)

\* C13: in every state of the Controller, after calls that succeed, do
\* nothing or raise, the field on display is the transform of the field of
\* frame current_frame and the highlight buffer is the mask of that frame's
\* observations.
C13_DisplayMatchesCursor ==
    pc = "running" =>
        /\ PyIndexOk(gm_s_list, current_frame)
        /\ scalars = DisplayOf(PyGet(gm_s_list, current_frame))
        /\ Len(color_vector) = NumSensors
        /\ \A j \in 1..NumSensors : color_vector[j] = MaskEntryOf(current_frame, j)

\* C17: when main_view has constructed the Controller, current_frame is 0,
\* the field on display is the transform of frame 0's field, and the
\* highlight buffer marks exactly the sensors that frame 0's observations
\* match.
C17_InitialDisplay ==
    (pc = "running" /\ last.op = "main_view")
    => (/\ current_frame = 0
        /\ scalars = DisplayOf(gm_s_list[1])
        /\ Len(color_vector) = NumSensors
        /\ \A j \in 1..NumSensors : color_vector[j] = MaskEntryOf(0, j))

\* C17 witness: a Controller constructed with log_plot over a frame 0 whose
\* observations match one sensor and not another.
C17_Witness ==
    /\ pc = "running" /\ last.op = "main_view"
    /\ log_plot
    /\ \E j \in 1..NumSensors : color_vector[j] = 1
    /\ \E j \in 1..NumSensors : color_vector[j] = 0

Min2(a, b) == IF a <= b THEN a ELSE b
Max2(a, b) == IF a >= b THEN a ELSE b

\* C18: a run of k consecutive next-frame calls without exception that
\* started at frame i (the initial frame 0 included) ends at frame
\* min(i + k, N - 1); a run of k consecutive previous-frame calls that
\* started at frame i ends at frame max(i - k, 0); and a call that moves the
\* cursor moves it by exactly 1.
C18_RunsOfSteps ==
    Navigated =>
        /\ (last.op = "next" /\ last.run >= 1)
              => current_frame = Min2(last.from + last.run, NumFrames - 1)
        /\ (last.op = "previous" /\ last.run >= 1)
              => current_frame = Max2(last.from - last.run, 0)
        /\ current_frame # last.index
              => (current_frame = last.index + 1 \/ current_frame = last.index - 1)

\* C18 witness: N next-frame calls from the initial state over N >= 3 frames
\* (every frame visited, the last call absorbed at the boundary).
C18_Witness ==
    /\ Navigated
    /\ NumFrames >= 3
    /\ last.op = "next" /\ last.from = 0 /\ last.run = NumFrames
    /\ current_frame = NumFrames - 1

\* C14: the stored fields, the observation lists and the embedding matrix
\* are never modified once the Controller runs: not by a navigation call,
\* and not by an in-place edit of the field handed to the renderer, which
\* is no alias of a stored field.
C14_StoredDataNeverChanges ==
    [][pc = "running" =>
          /\ gm_s_list' = gm_s_list
          /\ observation_list' = observation_list
          /\ embeddings' = embeddings]_vars

\* The loop over gm_list_list has ended.
SamplingDone ==
    \/ pc \in {"start", "running"}
    \/ pc = "failed" /\ last.op = "main_view"

\* C15: with gm_s_list None and gm_list_list given, gm_calculate is called
\* once per mixture in the order of gm_list_list, and when the loop has
\* ended gm_s_list is as long as gm_list_list with entry k the sample of
\* mixture k.
C15_OneSamplePerMixture ==
    (~gm_s_given /\ gm_list_given /\ pc # "entry") =>
        /\ Len(sampler_calls) <= Len(gm_list_list)
        /\ \A k \in 1..Len(sampler_calls) : sampler_calls[k] = gm_list_list[k]
        /\ Len(gm_s_list) = Len(sampler_calls)
        /\ \A k \in 1..Len(gm_s_list) : gm_s_list[k] = GmCalculate(gm_list_list[k])
        /\ SamplingDone => Len(sampler_calls) = Len(gm_list_list)

\* C15 witness: a Controller running over the samples of two or more
\* mixtures, the first two different.
C15_Witness ==
    /\ pc = "running"
    /\ ~gm_s_given /\ gm_list_given
    /\ Len(gm_list_list) >= 2
    /\ gm_list_list[1] # gm_list_list[2]

\* C16: with gm_s_list given, no step replaces it or calls gm_calculate,
\* whether or not gm_list_list is given too; with neither given the entry
\* step raises ValueError and leaves the cursor and the display untouched.
C16_ScalarsTakePrecedence ==
    [][/\ gm_s_given =>
             /\ gm_s_list' = gm_s_list
             /\ sampler_calls' = <<>>
             /\ pc' # "sampling"
       /\ (~gm_s_given /\ ~gm_list_given) =>
             /\ pc' = "failed"
             /\ last'.error = "ValueError"
             /\ UNCHANGED <<current_frame, scalars, color_vector>>]_vars

\* C16 witness: a Controller running over a given gm_s_list while a
\* non-empty gm_list_list was given too, with no gm_calculate call made.
C16_Witness ==
    /\ pc = "running"
    /\ gm_s_given /\ gm_list_given
    /\ Len(gm_list_list) >= 1
    /\ sampler_calls = <<>>

====
